---- MODULE Spec2Model ----
(***************************************************************************)
(* Model of the string analyzer service of src/main.go: the analyzer, the  *)
(* in-memory store guarded by a sync.RWMutex, the five request handlers as *)
(* interleaved steps of concurrent requests, and the natural-language      *)
(* parser.                                                                 *)
(*                                                                         *)
(* A Go string is modelled as a sequence of code points, each code point a *)
(* one-character TLA+ string: "a b" is <<"a", " ", "b">>.                  *)
(***************************************************************************)
EXTENDS Integers, Sequences, FiniteSets, TLC

\* ------------------------------------------------------------------------
\* Characters and strings
\* ------------------------------------------------------------------------

Upper == <<"A","B","C","D","E","F","G","H","I","J","K","L","M",
           "N","O","P","Q","R","S","T","U","V","W","X","Y","Z">>

Lower == <<"a","b","c","d","e","f","g","h","i","j","k","l","m",
           "n","o","p","q","r","s","t","u","v","w","x","y","z">>

Digits == <<"0","1","2","3","4","5","6","7","8","9">>

Range(f) == { f[i] : i \in DOMAIN f }

\* unicode.ToLower on one code point (ASCII letters are the ones modelled)
ToLowerCh(c) ==
  IF \E i \in DOMAIN Upper : Upper[i] = c
  THEN Lower[CHOOSE i \in DOMAIN Upper : Upper[i] = c]
  ELSE c

\* strings.ToLower
ToLower(s) == [ i \in 1..Len(s) |-> ToLowerCh(s[i]) ]

\* unicode.IsSpace, the class strings.TrimSpace strips ("VT" names U+000B,
\* which has no escape in a TLA+ string)
IsSpace(c) == c \in {" ", "\t", "\n", "\r", "\f", "VT"}

\* the class \s of Go's regexp (RE2): [\t\n\f\r ]
IsReSpace(c) == c \in {" ", "\t", "\n", "\r", "\f"}

IsDigit(c) == c \in Range(Digits)

\* the class [a-zA-Z] of reContains
IsLetter(c) == c \in Range(Upper) \cup Range(Lower)

DigitVal(c) == (CHOOSE i \in DOMAIN Digits : Digits[i] = c) - 1

RECURSIVE TrimLeft(_)
TrimLeft(s) ==
  IF s # <<>> /\ IsSpace(Head(s)) THEN TrimLeft(Tail(s)) ELSE s

RECURSIVE TrimRight(_)
TrimRight(s) ==
  IF s # <<>> /\ IsSpace(s[Len(s)]) THEN TrimRight(SubSeq(s, 1, Len(s) - 1)) ELSE s

\* strings.TrimSpace
TrimSpace(s) == TrimRight(TrimLeft(s))

\* does pat occur in s starting at index i
MatchAt(s, i, pat) ==
  /\ i + Len(pat) - 1 <= Len(s)
  /\ \A k \in 1..Len(pat) : s[i + k - 1] = pat[k]

\* strings.Contains
Contains(s, pat) == \E i \in 1..(Len(s) + 1) : MatchAt(s, i, pat)

\* strings.EqualFold (simple case folding, ASCII)
EqualFold(s, t) ==
  /\ Len(s) = Len(t)
  /\ \A i \in 1..Len(s) : ToLowerCh(s[i]) = ToLowerCh(t[i])

\* ------------------------------------------------------------------------
\* Analyzer
\* ------------------------------------------------------------------------

\* sha256 followed by hex encoding: a digest that identifies its input
\* (collision resistance), kept apart from the input itself by its tag
computeHash(s) == <<"sha256", s>>

\* character frequency map: code point (as a one-rune string) -> count
charFreqMap(s) ==
  [ c \in Range(s) |-> Cardinality({ i \in 1..Len(s) : s[i] = c }) ]

isPalindrome(s) ==
  LET rs == ToLower(s)
  IN  \A i \in 1..Len(rs) : rs[i] = rs[Len(rs) + 1 - i]

\* strings.TrimSpace, then the number of parts regexp \s+ splits it into
wordCount(s) ==
  LET trimmed == TrimSpace(s)
      starts  == { i \in 1..Len(trimmed) :
                     /\ IsReSpace(trimmed[i])
                     /\ ~IsReSpace(trimmed[i - 1]) }
  IN  IF trimmed = <<>> THEN 0 ELSE Cardinality(starts) + 1

analyzeString(s) ==
  LET freq == charFreqMap(s)
  IN  [ length                  |-> Len(s),
        is_palindrome           |-> isPalindrome(s),
        unique_characters       |-> Cardinality(DOMAIN freq),
        word_count              |-> wordCount(s),
        sha256_hash             |-> computeHash(s),
        character_frequency_map |-> freq ]

\* ------------------------------------------------------------------------
\* url.PathUnescape
\* ------------------------------------------------------------------------

\* the printable ASCII code points, codes 32 to 126 in order ("GRAVE" names
\* U+0060, which a TLA+ string cannot hold)
AsciiPrintable ==
  <<" ","!","\"","#","$","%","&","'","(",")","*","+",",","-",".","/",
    "0","1","2","3","4","5","6","7","8","9",":",";","<","=",">","?",
    "@","A","B","C","D","E","F","G","H","I","J","K","L","M","N","O",
    "P","Q","R","S","T","U","V","W","X","Y","Z","[","\\","]","^","_",
    "GRAVE","a","b","c","d","e","f","g","h","i","j","k","l","m","n","o",
    "p","q","r","s","t","u","v","w","x","y","z","{","|","}","~">>

\* the control code points, codes 0 to 31 in order, by their names
AsciiControl ==
  <<"NUL","SOH","STX","ETX","EOT","ENQ","ACK","BEL","BS","\t","\n","VT",
    "\f","\r","SO","SI","DLE","DC1","DC2","DC3","DC4","NAK","SYN","ETB",
    "CAN","EM","SUB","ESC","FS","GS","RS","US">>

\* the code point a decoded byte stands for (bytes from 127 on are DEL or
\* parts of multi-byte sequences, one name for all of them)
ByteChar(n) ==
  IF n < 32 THEN AsciiControl[n + 1]
  ELSE IF n < 127 THEN AsciiPrintable[n - 31]
  ELSE "HIGH"

\* ishex of net/url
IsHex(c) == IsDigit(c) \/ c \in {"a","b","c","d","e","f","A","B","C","D","E","F"}

\* unhex of net/url
Unhex(c) ==
  IF IsDigit(c) THEN DigitVal(c)
  ELSE LET k == CHOOSE i \in 1..6 : Lower[i] = ToLowerCh(c) IN 9 + k

\* does every % of s start a %XX escape (the check of url.unescape's first pass)
EscapesValid(s) ==
  \A i \in 1..Len(s) :
    s[i] = "%" => /\ i + 2 <= Len(s)
                  /\ IsHex(s[i + 1])
                  /\ IsHex(s[i + 2])

RECURSIVE UnescapeFrom(_, _)
UnescapeFrom(s, i) ==
  IF i > Len(s) THEN <<>>
  ELSE IF s[i] = "%"
       THEN <<ByteChar(16 * Unhex(s[i + 1]) + Unhex(s[i + 2]))>> \o UnescapeFrom(s, i + 3)
       ELSE <<s[i]>> \o UnescapeFrom(s, i + 1)

\* url.PathUnescape: [ok, val]; ok is FALSE for the EscapeError
PathUnescape(s) ==
  IF EscapesValid(s) THEN [ok |-> TRUE, val |-> UnescapeFrom(s, 1)]
  ELSE [ok |-> FALSE, val |-> <<>>]

\* ------------------------------------------------------------------------
\* String literals of the source
\* ------------------------------------------------------------------------

TRUE_STR == <<"t","r","u","e">>
FALSE_STR == <<"f","a","l","s","e">>
SINGLE_WORD == <<"s","i","n","g","l","e"," ","w","o","r","d">>
SINGLE_DASH_WORD == <<"s","i","n","g","l","e","-","w","o","r","d">>
ONE_WORD == <<"o","n","e"," ","w","o","r","d">>
PALINDROM == <<"p","a","l","i","n","d","r","o","m">>
LONGER_THAN == <<"l","o","n","g","e","r"," ","t","h","a","n">>
CHARACTERS == <<"c","h","a","r","a","c","t","e","r","s">>
CONTAINING_THE_LETTER == <<"c","o","n","t","a","i","n","i","n","g"," ","t","h","e"," ","l","e","t","t","e","r">>
CONTAIN_THE_LETTER == <<"c","o","n","t","a","i","n"," ","t","h","e"," ","l","e","t","t","e","r">>
CONTAINING == <<"c","o","n","t","a","i","n","i","n","g">>
CONTAIN == <<"c","o","n","t","a","i","n">>
FIRST_VOWEL == <<"f","i","r","s","t"," ","v","o","w","e","l">>
FIRST_VOWEL_A == <<"f","i","r","s","t"," ","v","o","w","e","l"," ","a">>
WORD == <<"w","o","r","d">>

\* ------------------------------------------------------------------------
\* strconv.Atoi and the query parameters of GET /strings
\* ------------------------------------------------------------------------

RECURSIVE DigitsValue(_)
DigitsValue(ds) ==
  IF ds = <<>> THEN 0
  ELSE 10 * DigitsValue(SubSeq(ds, 1, Len(ds) - 1)) + DigitVal(ds[Len(ds)])

AllDigits(ds) == ds # <<>> /\ \A i \in 1..Len(ds) : IsDigit(ds[i])

\* the digits of the largest and of the least 64-bit int
MaxIntDigits == <<"9","2","2","3","3","7","2","0","3","6","8","5","4","7","7","5","8","0","7">>

MinIntDigits == <<"9","2","2","3","3","7","2","0","3","6","8","5","4","7","7","5","8","0","8">>

RECURSIVE StripZeros(_)
StripZeros(ds) ==
  IF Len(ds) > 1 /\ Head(ds) = "0" THEN StripZeros(Tail(ds)) ELSE ds

\* a <= b for decimal numerals of the same length
DecLeq(a, b) ==
  \/ a = b
  \/ \E i \in 1..Len(a) :
        /\ \A j \in 1..(i - 1) : a[j] = b[j]
        /\ DigitVal(a[i]) < DigitVal(b[i])

\* the magnitude ds is at most limit
InIntRange(ds, limit) ==
  \/ Len(StripZeros(ds)) < Len(limit)
  \/ Len(StripZeros(ds)) = Len(limit) /\ DecLeq(StripZeros(ds), limit)

\* strconv.Atoi: <<n>>, or <<>> for an error (a syntax error, or the range
\* error of a value that does not fit the 64-bit int)
Atoi(v) ==
  IF v # <<>> /\ v[1] \in {"+", "-"}
  THEN IF /\ AllDigits(Tail(v))
          /\ InIntRange(Tail(v), IF v[1] = "-" THEN MinIntDigits ELSE MaxIntDigits)
       THEN <<(IF v[1] = "-" THEN -1 ELSE 1) * DigitsValue(Tail(v))>>
       ELSE <<>>
  ELSE IF AllDigits(v) /\ InIntRange(v, MaxIntDigits)
       THEN <<DigitsValue(v)>>
       ELSE <<>>

\* [ok, val]
parseBoolParam(v) ==
  IF v = TRUE_STR THEN [ok |-> TRUE, val |-> TRUE]
  ELSE IF v = FALSE_STR THEN [ok |-> TRUE, val |-> FALSE]
  ELSE [ok |-> FALSE, val |-> FALSE]

\* a filter of getAllStringsHandler: each field is <<>> (the nil pointer) or
\* <<x>> (a pointer to x)
NoFilter ==
  [ is_palindrome |-> <<>>, min_length |-> <<>>, max_length |-> <<>>,
    word_count |-> <<>>, contains_character |-> <<>> ]

\* an integer parameter: [ok, val]; val is <<>> when the parameter is absent
IntParam(v) ==
  IF v = <<>> THEN [ok |-> TRUE, val |-> <<>>]
  ELSE LET x == Atoi(v)
       IN  IF x = <<>> \/ x[1] < 0 THEN [ok |-> FALSE, val |-> <<>>]
           ELSE [ok |-> TRUE, val |-> x]

\* the parameter parsing of getAllStringsHandler. q holds what q.Get returns
\* for each parameter (<<>> is the empty string of an absent parameter).
\* [err, filter]: err is "" or the message of the 400 response.
ParseListParams(q) ==
  LET pal == IF q.is_palindrome = <<>> THEN [ok |-> TRUE, val |-> <<>>]
             ELSE LET b == parseBoolParam(ToLower(q.is_palindrome))
                  IN  [ok |-> b.ok, val |-> <<b.val>>]
      min == IntParam(q.min_length)
      max == IntParam(q.max_length)
      wc  == IntParam(q.word_count)
      rs  == q.contains_character
  IN  IF ~pal.ok THEN [err |-> "invalid is_palindrome value", filter |-> NoFilter]
      ELSE IF ~min.ok THEN [err |-> "invalid min_length", filter |-> NoFilter]
      ELSE IF ~max.ok THEN [err |-> "invalid max_length", filter |-> NoFilter]
      ELSE IF ~wc.ok THEN [err |-> "invalid word_count", filter |-> NoFilter]
      ELSE IF rs # <<>> /\ Len(rs) # 1
           THEN [err |-> "contains_character must be a single character",
                 filter |-> NoFilter]
      ELSE [err |-> "",
            filter |-> [ is_palindrome |-> pal.val, min_length |-> min.val,
                         max_length |-> max.val, word_count |-> wc.val,
                         contains_character |-> rs ]]

\* the loop body of getAllStringsHandler: does item pass the filter f
ListMatches(item, f) ==
  LET props == item.properties
  IN  /\ ~(f.is_palindrome # <<>> /\ props.is_palindrome # f.is_palindrome[1])
      /\ ~(f.min_length # <<>> /\ props.length < f.min_length[1])
      /\ ~(f.max_length # <<>> /\ props.length > f.max_length[1])
      /\ ~(f.word_count # <<>> /\ props.word_count # f.word_count[1])
      /\ (f.contains_character # <<>> =>
            \E ch \in DOMAIN props.character_frequency_map :
               ch = f.contains_character[1])

\* the results of getAllStringsHandler's scan of the map m
ListResults(m, f) == { m[k] : k \in { x \in DOMAIN m : ListMatches(m[x], f) } }

\* ------------------------------------------------------------------------
\* Natural-language parser
\* ------------------------------------------------------------------------

EmptyMap == [ k \in {} |-> 0 ]

\* m[k] = v of a Go map
Put(m, k, v) == [ x \in DOMAIN m \cup {k} |-> IF x = k THEN v ELSE m[x] ]

RECURSIVE SpaceRunEnd(_, _)
\* the index after the longest run of \s that starts at i
SpaceRunEnd(s, i) ==
  IF i <= Len(s) /\ IsReSpace(s[i]) THEN SpaceRunEnd(s, i + 1) ELSE i

RECURSIVE DigitRunEnd(_, _)
\* the index after the longest run of \d that starts at i
DigitRunEnd(s, i) ==
  IF i <= Len(s) /\ IsDigit(s[i]) THEN DigitRunEnd(s, i + 1) ELSE i

\* a literal, then \s+, ending at the index after the spaces (0: no match)
LitSpaces(s, i, lit) ==
  LET a == i + Len(lit)
      b == SpaceRunEnd(s, a)
  IN  IF MatchAt(s, i, lit) /\ b > a THEN b ELSE 0

\* reLonger at i: longer than\s+(\d+); the capture, <<>> when no match
LongerAt(q, i) ==
  LET b == LitSpaces(q, i, LONGER_THAN)
      c == DigitRunEnd(q, b)
  IN  IF b > 0 /\ c > b THEN SubSeq(q, b, c - 1) ELSE <<>>

\* reLonger2 at i: longer than\s+(\d+)\s+characters
Longer2At(q, i) ==
  LET b == LitSpaces(q, i, LONGER_THAN)
      c == DigitRunEnd(q, b)
      d == SpaceRunEnd(q, c)
  IN  IF b > 0 /\ c > b /\ d > c /\ MatchAt(q, d, CHARACTERS)
      THEN SubSeq(q, b, c - 1) ELSE <<>>

\* one alternative of reContains at i: lit\s+([a-zA-Z])
LetterAfter(q, i, lit) ==
  LET b == LitSpaces(q, i, lit)
  IN  IF b > 0 /\ b <= Len(q) /\ IsLetter(q[b]) THEN <<q[b]>> ELSE <<>>

\* the first non-empty capture of caps, <<>> when all are empty
FirstCapture(caps) ==
  IF \A k \in DOMAIN caps : caps[k] = <<>> THEN <<>>
  ELSE caps[CHOOSE k \in DOMAIN caps :
              caps[k] # <<>> /\ \A j \in 1..(k - 1) : caps[j] = <<>>]

\* reContains at i: the alternatives in order, the first that matches wins;
\* the capture is the first non-empty group (lines 321-326)
ContainsAt(q, i) ==
  FirstCapture(<< LetterAfter(q, i, CONTAINING_THE_LETTER),
                  LetterAfter(q, i, CONTAIN_THE_LETTER),
                  LetterAfter(q, i, CONTAINING),
                  LetterAfter(q, i, CONTAIN) >>)

\* the class \w of the regexp, which \b is defined by
IsWordChar(c) == IsLetter(c) \/ IsDigit(c) \/ c = "_"

\* reWords at i: \b(\d+)\s+word
WordsAt(q, i) ==
  LET c == DigitRunEnd(q, i)
      d == SpaceRunEnd(q, c)
  IN  IF /\ c > i
         /\ (i = 1 \/ ~IsWordChar(q[i - 1]))
         /\ d > c
         /\ MatchAt(q, d, WORD)
      THEN SubSeq(q, i, c - 1) ELSE <<>>

\* FindStringSubmatch: the capture of the leftmost match of the regexp, <<>>
\* when it does not match
FindLonger(q) == FirstCapture([ i \in 1..Len(q) |-> LongerAt(q, i) ])

FindLonger2(q) == FirstCapture([ i \in 1..Len(q) |-> Longer2At(q, i) ])

FindContains(q) == FirstCapture([ i \in 1..Len(q) |-> ContainsAt(q, i) ])

FindWords(q) == FirstCapture([ i \in 1..Len(q) |-> WordsAt(q, i) ])

\* x + 1 of an optional integer
AddOne(x) == IF x = <<>> THEN <<>> ELSE <<x[1] + 1>>

\* lines 307-309 and 314-316: the minimum length of "longer than" ds, <<>>
\* when there is no match or Atoi fails
LongerMin(ds) == IF ds = <<>> THEN <<>> ELSE AddOne(Atoi(ds))

\* lines 334-336: the word count of ds, <<>> when there is no match
WordsCount(ds) == IF ds = <<>> THEN <<>> ELSE Atoi(ds)

\* m[k] = v[1] when the optional v is set
PutOpt(m, k, v) == IF v = <<>> THEN m ELSE Put(m, k, v[1])

\* line 331: m[k] = v[1] only when m has no k yet
PutAbsent(m, k, v) == IF k \in DOMAIN m THEN m ELSE PutOpt(m, k, v)

Some(cond, v) == IF cond THEN <<v>> ELSE <<>>

\* lines 298-339: the map the rules fill for the lowercased, trimmed query q
ParsedRules(q) ==
  LET p1 == PutOpt(EmptyMap, "word_count",
                   Some(\/ Contains(q, SINGLE_WORD)
                        \/ Contains(q, SINGLE_DASH_WORD)
                        \/ Contains(q, ONE_WORD), 1))
      p2 == PutOpt(p1, "is_palindrome", Some(Contains(q, PALINDROM), TRUE))
      p3 == PutOpt(p2, "min_length", LongerMin(FindLonger(q)))
      p4 == PutOpt(p3, "min_length", LongerMin(FindLonger2(q)))
      p5 == PutOpt(p4, "contains_character",
                   Some(FindContains(q) # <<>>,
                        ToLower(FindContains(q))))
      p6 == PutOpt(p5, "contains_character",
                   Some(Contains(q, FIRST_VOWEL) \/ Contains(q, FIRST_VOWEL_A), <<"a">>))
  IN  PutAbsent(p6, "word_count", WordsCount(FindWords(q)))

\* ParseResult without the len(parsed) == 0 check of line 340
ParseResult_NoEmptyCheck(q, parsed) ==
  IF q = <<>> THEN [err |-> "empty query", parsed |-> EmptyMap]
  ELSE [err |-> "", parsed |-> parsed]

\* lines 295-297 and 340-351: the result for the query q and its map
\* [err, parsed]: err is "" or the message of the error
ParseResult(q, parsed) ==
  IF q = <<>> THEN [err |-> "empty query", parsed |-> EmptyMap]
  ELSE IF DOMAIN parsed = {}
  THEN [err |-> "unable to parse natural language query", parsed |-> EmptyMap]
  ELSE IF /\ "min_length" \in DOMAIN parsed
          /\ "max_length" \in DOMAIN parsed
          /\ parsed["min_length"] > parsed["max_length"]
  THEN [err |-> "conflicting filters", parsed |-> EmptyMap]
  ELSE [err |-> "", parsed |-> parsed]

LowerTrimmed(query) == ToLower(TrimSpace(query))

parseNaturalLanguage(query) ==
  ParseResult(LowerTrimmed(query), ParsedRules(LowerTrimmed(query)))

\* the loop body of applyParsedFilters: does item pass the parsed filters
ParsedMatches(item, parsed) ==
  LET props == item.properties
  IN  /\ ("is_palindrome" \in DOMAIN parsed =>
            props.is_palindrome = parsed["is_palindrome"])
      /\ ("word_count" \in DOMAIN parsed =>
            props.word_count = parsed["word_count"])
      /\ ("min_length" \in DOMAIN parsed =>
            ~(props.length < parsed["min_length"]))
      /\ ("max_length" \in DOMAIN parsed =>
            ~(props.length > parsed["max_length"]))
      /\ ("contains_character" \in DOMAIN parsed =>
            /\ parsed["contains_character"] # <<>>
            /\ \E ch \in DOMAIN props.character_frequency_map :
                  EqualFold(<<ch>>, parsed["contains_character"]))

\* the results of applyParsedFilters' scan of the map m
applyParsedFilters(m, parsed) ==
  { m[k] : k \in { x \in DOMAIN m : ParsedMatches(m[x], parsed) } }

\* ------------------------------------------------------------------------
\* State
\* ------------------------------------------------------------------------

\* the last second the clock reaches
MaxClock == 1

\* the request slots: the requests in flight at once
Procs == {1, 2}

NoProc == 0

VARIABLES
  store,    \* store.m: id -> StoredString
  readers,  \* the requests holding store's read lock
  writer,   \* the request holding store's write lock, or NoProc
  clock,    \* time.Now, in seconds
  pc,       \* where each request is in its handler
  req,      \* the request each slot serves: its route and its input
  loc,      \* the local variables of each request's handler
  res,      \* the response each request has written
  input,    \* the argument of a function applied on its own
  output    \* its result

vars == <<store, readers, writer, clock, pc, req, loc, res, input, output>>

NoLocals == [handler |-> "none"]

NoRequest == [op |-> "none", arg |-> <<>>]

NoOutput == [done |-> FALSE, val |-> <<>>]

NoResponse == [status |-> 0, body |-> <<>>]

Response(code, v) == [status |-> code, body |-> v]

ErrorBody(msg) == [error |-> msg]

\* ------------------------------------------------------------------------
\* Request inputs
\* ------------------------------------------------------------------------

\* the strings clients submit: "", "A" and "%41"
Values == { <<>>, <<"A">>, <<"%","4","1">> }

\* the decoded JSON bodies of POST /strings: CreateReq.Value is nil, a
\* non-string JSON value, or a string
Bodies ==
  { [kind |-> "nil", value |-> <<>>], [kind |-> "number", value |-> <<>>] }
    \cup { [kind |-> "string", value |-> v] : v \in Values }

\* r.URL.Path without its "/strings/" prefix. net/http has already decoded
\* the escapes of the request line, so a request for the value v arrives
\* with the path v. "%" is a path url.PathUnescape rejects.
Paths == Values \cup { <<"%">> }

ListParams(pal, min, max, wc, ch) ==
  [ is_palindrome |-> pal, min_length |-> min, max_length |-> max,
    word_count |-> wc, contains_character |-> ch ]

\* query strings of GET /strings: is_palindrome=TRUE&min_length=1;
\* min_length=-1; contains_character=a
ListRequests ==
  { ListParams(<<"T","R","U","E">>, <<"1">>, <<>>, <<>>, <<>>),
    ListParams(<<>>, <<"-","1">>, <<>>, <<>>, <<>>),
    ListParams(<<>>, <<>>, <<>>, <<>>, <<"a">>) }

\* the query parameter of the natural-language route: "", "xyz", "contain a"
\* two queries: "palindromic" and "contain a"
PALINDROMIC_STR == <<"p","a","l","i","n","d","r","o","m","i","c">>

CONTAIN_A_STR == <<"c","o","n","t","a","i","n"," ","a">>

NLRequests == { <<>>, <<"x","y","z">>, CONTAIN_A_STR }

\* ------------------------------------------------------------------------
\* sync.RWMutex
\* ------------------------------------------------------------------------

RLock(p) ==
  /\ writer = NoProc
  /\ readers' = readers \cup {p}
  /\ UNCHANGED writer

RUnlock(p) ==
  /\ readers' = readers \ {p}
  /\ UNCHANGED writer

Lock(p) ==
  /\ writer = NoProc
  /\ readers = {}
  /\ writer' = p
  /\ UNCHANGED readers

Unlock(p) ==
  /\ writer' = NoProc
  /\ UNCHANGED readers

\* a step of request p that moves it to label l with locals v; a request
\* that is running has written no response
Goto(p, l, v) ==
  /\ pc' = [pc EXCEPT ![p] = l]
  /\ loc' = [loc EXCEPT ![p] = v]
  /\ res' = [res EXCEPT ![p] = NoResponse]

\* the step in which request p writes its response and returns
Respond(p, code, v) ==
  /\ pc' = [pc EXCEPT ![p] = "done"]
  /\ loc' = [loc EXCEPT ![p] = NoLocals]
  /\ res' = [res EXCEPT ![p] = Response(code, v)]

\* slot p, which has run no request or whose last request has returned,
\* takes the request of route op with input arg
Accept(p, op, arg) ==
  /\ pc[p] \in {"idle", "done"}
  /\ req' = [req EXCEPT ![p] = [op |-> op, arg |-> arg]]

\* a step inside a handler
Running(p, l) ==
  /\ pc[p] = l
  /\ UNCHANGED req

NoLocks == UNCHANGED <<readers, writer>>

Pure == UNCHANGED <<input, output>>

\* ------------------------------------------------------------------------
\* postStringsHandler
\* ------------------------------------------------------------------------

\* [val, code, err]: code 0 and err "" for a string
validateCreateBody(body) ==
  IF body.kind = "nil"
  THEN [val |-> <<>>, code |-> 400, err |-> "missing \"value\" field"]
  ELSE IF body.kind = "string"
  THEN [val |-> body.value, code |-> 0, err |-> ""]
  ELSE [val |-> <<>>, code |-> 422, err |-> "\"value\" must be a string"]

\* NewItem with the id taken from the case-folded value
NewItem_FoldedId(id, val, props, now) ==
  [ id |-> computeHash(ToLower(val)), value |-> val, properties |-> props,
    created_at |-> now ]

\* the StoredString built at lines 135-140
NewItem(id, val, props, now) ==
  [id |-> id, value |-> val, properties |-> props, created_at |-> now]

\* lines 115-126: decode, validate, analyze
PostStart(p, body) ==
  /\ Accept(p, "post", body)
  /\ LET v == validateCreateBody(body)
     IN  IF v.err # ""
         THEN Respond(p, v.code, ErrorBody(v.err))
         ELSE Goto(p, "post_rlock",
                      [ handler |-> "post", val |-> v.val,
                        props |-> analyzeString(v.val),
                        id |-> analyzeString(v.val).sha256_hash ])
  /\ NoLocks /\ Pure
  /\ UNCHANGED <<store, clock>>

\* line 127
PostRLock(p) ==
  /\ Running(p, "post_rlock")
  /\ RLock(p)
  /\ Goto(p, "post_check", loc[p])
  /\ Pure
  /\ UNCHANGED <<store, clock>>

\* PostCheck that stamps the record it finds with the time of the rejected
\* request before it answers 409
PostCheck_Touch(p) ==
  /\ Running(p, "post_check")
  /\ RUnlock(p)
  /\ IF loc[p].id \in DOMAIN store
     THEN /\ Respond(p, 409, ErrorBody("string already exists in the system"))
          /\ store' = [store EXCEPT ![loc[p].id].created_at = clock]
     ELSE Goto(p, "post_now", loc[p]) /\ UNCHANGED store
  /\ Pure
  /\ UNCHANGED clock

\* lines 128-133: the existence check, under the read lock, and its release
PostCheck(p) ==
  /\ Running(p, "post_check")
  /\ RUnlock(p)
  /\ IF loc[p].id \in DOMAIN store
     THEN Respond(p, 409, ErrorBody("string already exists in the system"))
     ELSE Goto(p, "post_now", loc[p])
  /\ Pure
  /\ UNCHANGED <<store, clock>>

\* lines 134-140: time.Now and the item
PostNow(p) ==
  /\ Running(p, "post_now")
  /\ Goto(p, "post_lock",
          [ handler |-> "post",
            item |-> NewItem(loc[p].id, loc[p].val, loc[p].props, clock) ])
  /\ NoLocks /\ Pure
  /\ UNCHANGED <<store, clock>>

\* line 141
PostLock(p) ==
  /\ Running(p, "post_lock")
  /\ Lock(p)
  /\ Goto(p, "post_write", loc[p])
  /\ Pure
  /\ UNCHANGED <<store, clock>>

\* lines 142-144: the write, under the write lock, and the 201 response
PostWrite(p) ==
  /\ Running(p, "post_write")
  /\ store' = Put(store, loc[p].item.id, loc[p].item)
  /\ Unlock(p)
  /\ Respond(p, 201, loc[p].item)
  /\ Pure
  /\ UNCHANGED clock

\* ------------------------------------------------------------------------
\* getStringByValueHandler
\* ------------------------------------------------------------------------

\* lines 152-162: unescape the path, reject the empty one, hash
GetStart(p, path) ==
  /\ Accept(p, "get", path)
  /\ LET d == PathUnescape(path)
     IN  IF ~d.ok
         THEN Respond(p, 400, ErrorBody("invalid URL-encoded string"))
         ELSE IF d.val = <<>>
         THEN Respond(p, 400, ErrorBody("missing string value in path"))
         ELSE Goto(p, "get_rlock",
                      [handler |-> "get", id |-> computeHash(d.val)])
  /\ NoLocks /\ Pure
  /\ UNCHANGED <<store, clock>>

\* line 163
GetRLock(p) ==
  /\ Running(p, "get_rlock")
  /\ RLock(p)
  /\ Goto(p, "get_read", loc[p])
  /\ Pure
  /\ UNCHANGED <<store, clock>>

\* lines 164-170: the lookup, under the read lock, its release, the response
GetRead(p) ==
  /\ Running(p, "get_read")
  /\ RUnlock(p)
  /\ IF loc[p].id \notin DOMAIN store
     THEN Respond(p, 404, ErrorBody("string does not exist in the system"))
     ELSE Respond(p, 200, store[loc[p].id])
  /\ Pure
  /\ UNCHANGED <<store, clock>>

\* ------------------------------------------------------------------------
\* deleteStringHandler
\* ------------------------------------------------------------------------

\* lines 463-473
DeleteStart(p, path) ==
  /\ Accept(p, "delete", path)
  /\ LET d == PathUnescape(path)
     IN  IF ~d.ok
         THEN Respond(p, 400, ErrorBody("invalid URL-encoded string"))
         ELSE IF d.val = <<>>
         THEN Respond(p, 400, ErrorBody("missing string value in path"))
         ELSE Goto(p, "delete_lock",
                      [handler |-> "delete", id |-> computeHash(d.val)])
  /\ NoLocks /\ Pure
  /\ UNCHANGED <<store, clock>>

\* line 474
DeleteLock(p) ==
  /\ Running(p, "delete_lock")
  /\ Lock(p)
  /\ Goto(p, "delete_write", loc[p])
  /\ Pure
  /\ UNCHANGED <<store, clock>>

\* delete(m, id) of a Go map
Remove(m, k) == [ x \in DOMAIN m \ {k} |-> m[x] ]

\* DeleteWrite without the Unlock of line 477 on the not-found path
DeleteWrite_KeepLock(p) ==
  /\ Running(p, "delete_write")
  /\ IF loc[p].id \notin DOMAIN store
     THEN /\ Respond(p, 404, ErrorBody("string does not exist in the system"))
          /\ UNCHANGED store
          /\ NoLocks
     ELSE /\ store' = Remove(store, loc[p].id)
          /\ Respond(p, 204, <<>>)
          /\ Unlock(p)
  /\ Pure
  /\ UNCHANGED clock

\* lines 475-483: check and delete under the write lock; both paths unlock
DeleteWrite(p) ==
  /\ Running(p, "delete_write")
  /\ Unlock(p)
  /\ IF loc[p].id \notin DOMAIN store
     THEN /\ Respond(p, 404, ErrorBody("string does not exist in the system"))
          /\ UNCHANGED store
     ELSE /\ store' = Remove(store, loc[p].id)
          /\ Respond(p, 204, <<>>)
  /\ Pure
  /\ UNCHANGED clock

\* ------------------------------------------------------------------------
\* getAllStringsHandler
\* ------------------------------------------------------------------------

\* lines 269-284: only the filters that are set
FiltersApplied(f) ==
  [ k \in { x \in DOMAIN f : f[x] # <<>> } |-> f[k][1] ]

\* lines 188-235: the query parameters
ListStart(p, q) ==
  /\ Accept(p, "list", q)
  /\ LET r == ParseListParams(q)
     IN  IF r.err # ""
         THEN Respond(p, 400, ErrorBody(r.err))
         ELSE Goto(p, "list_rlock", [handler |-> "list", filter |-> r.filter])
  /\ NoLocks /\ Pure
  /\ UNCHANGED <<store, clock>>

\* line 236
ListRLock(p) ==
  /\ Running(p, "list_rlock")
  /\ RLock(p)
  /\ Goto(p, "list_scan", loc[p])
  /\ Pure
  /\ UNCHANGED <<store, clock>>

\* lines 237-267: the scan, filters evaluated under the read lock
ListScan(p) ==
  /\ Running(p, "list_scan")
  /\ Goto(p, "list_runlock",
          [ handler |-> "list", filter |-> loc[p].filter,
            results |-> ListResults(store, loc[p].filter) ])
  /\ NoLocks /\ Pure
  /\ UNCHANGED <<store, clock>>

\* lines 268-290
ListRUnlock(p) ==
  /\ Running(p, "list_runlock")
  /\ RUnlock(p)
  /\ Respond(p, 200,
             [ data |-> loc[p].results,
               count |-> Cardinality(loc[p].results),
               filters_applied |-> FiltersApplied(loc[p].filter) ])
  /\ Pure
  /\ UNCHANGED <<store, clock>>

\* ------------------------------------------------------------------------
\* naturalLanguageHandler
\* ------------------------------------------------------------------------

\* lines 438-442: the parse result r of the query q
NLParsed(p, q, r) ==
  IF r.err # ""
  THEN Respond(p, 400, ErrorBody(r.err))
  ELSE Goto(p, "nl_rlock", [handler |-> "nl", q |-> q, parsed |-> r.parsed])

\* lines 432-441
NLStart(p, q) ==
  /\ Accept(p, "nl", q)
  /\ IF q = <<>>
     THEN Respond(p, 400, ErrorBody("query parameter is required"))
     ELSE NLParsed(p, q, parseNaturalLanguage(q))
  /\ NoLocks /\ Pure
  /\ UNCHANGED <<store, clock>>

\* line 355
NLRLock(p) ==
  /\ Running(p, "nl_rlock")
  /\ RLock(p)
  /\ Goto(p, "nl_scan", loc[p])
  /\ Pure
  /\ UNCHANGED <<store, clock>>

\* lines 357-424: the scan of applyParsedFilters, under the read lock
NLScan(p) ==
  /\ Running(p, "nl_scan")
  /\ Goto(p, "nl_runlock",
          [ handler |-> "nl", q |-> loc[p].q, parsed |-> loc[p].parsed,
            results |-> applyParsedFilters(store, loc[p].parsed) ])
  /\ NoLocks /\ Pure
  /\ UNCHANGED <<store, clock>>

\* line 356 (the deferred RUnlock, run as applyParsedFilters returns) and
\* lines 447-455
NLRUnlock(p) ==
  /\ Running(p, "nl_runlock")
  /\ RUnlock(p)
  /\ Respond(p, 200,
             [ data |-> loc[p].results,
               count |-> Cardinality(loc[p].results),
               interpreted_query |->
                 [original |-> loc[p].q, parsed_filters |-> loc[p].parsed] ])
  /\ Pure
  /\ UNCHANGED <<store, clock>>

\* ------------------------------------------------------------------------
\* The service
\* ------------------------------------------------------------------------

\* a second passes
Tick ==
  /\ clock < MaxClock
  /\ clock' = clock + 1
  /\ UNCHANGED <<store, readers, writer, pc, req, loc, res, input, output>>

\* the service as it starts: an empty store, no request yet
Started ==
  /\ store = EmptyMap
  /\ readers = {}
  /\ writer = NoProc
  /\ clock = 0
  /\ pc = [p \in Procs |-> "idle"]
  /\ req = [p \in Procs |-> NoRequest]
  /\ loc = [p \in Procs |-> NoLocals]
  /\ res = [p \in Procs |-> NoResponse]

Init ==
  /\ Started
  /\ input = <<>>
  /\ output = NoOutput

Post(p) ==
  \/ \E body \in Bodies : PostStart(p, body)
  \/ PostRLock(p)
  \/ PostCheck(p)
  \/ PostNow(p)
  \/ PostLock(p)
  \/ PostWrite(p)

Get(p) ==
  \/ \E path \in Paths : GetStart(p, path)
  \/ GetRLock(p)
  \/ GetRead(p)

Delete(p) ==
  \/ \E path \in Paths : DeleteStart(p, path)
  \/ DeleteLock(p)
  \/ DeleteWrite(p)

List(p) ==
  \/ \E q \in ListRequests : ListStart(p, q)
  \/ ListRLock(p)
  \/ ListScan(p)
  \/ ListRUnlock(p)

NL(p) ==
  \/ \E q \in NLRequests : NLStart(p, q)
  \/ NLRLock(p)
  \/ NLScan(p)
  \/ NLRUnlock(p)

Next ==
  \/ \E p \in Procs : Post(p)
  \/ \E p \in Procs : Get(p)
  \/ \E p \in Procs : Delete(p)
  \/ \E p \in Procs : List(p)
  \/ \E p \in Procs : NL(p)
  \/ Tick

Spec == Init /\ [][Next]_vars

\* ------------------------------------------------------------------------
\* Concurrent creates of one value: every slot serves one POST of the value
\* held in input, against the empty store
\* ------------------------------------------------------------------------

InitRace ==
  /\ Started
  /\ input \in Values
  /\ output = NoOutput

RaceStart(p) ==
  /\ pc[p] = "idle"
  /\ PostStart(p, [kind |-> "string", value |-> input])

NextRace ==
  \/ \E p \in Procs : RaceStart(p)
  \/ \E p \in Procs : PostRLock(p)
  \/ \E p \in Procs : PostCheck(p)
  \/ \E p \in Procs : PostNow(p)
  \/ \E p \in Procs : PostLock(p)
  \/ \E p \in Procs : PostWrite(p)
  \/ Tick

SpecRace == InitRace /\ [][NextRace]_vars

\* ------------------------------------------------------------------------
\* The parser on its own: parseNaturalLanguage applied to the query in input
\* ------------------------------------------------------------------------

\* the most pieces a query is put together from
MaxFragments == 3

\* the query of the README's sample response (line 734)
README_QUERY == <<"f","i","n","d"," ">> \o <<"s","t","r","i","n","g","s"," ","l","o","n","g","e","r"," ","t","h","a","n"," ","5"," ","c","h","a","r","a","c","t","e","r","s"," ","c","o","n","t","a","i","n","i","n","g"," ","t","h","e"," ","l","e","t","t","e","r"," ","r">>

\* the same query without its first word
EXAMPLE_QUERY == SubSeq(README_QUERY, 6, Len(README_QUERY))

\* the pieces: " ", "xyz", "longer than 5", " longer than 7", " characters",
\* " containing the letter r", " contain lot", "Palindromic", " single word",
\* " 2 words", "first vowel", " longer than 99999999999999999999" and the
\* README's query with and without its first word
Fragments ==
  { <<" ">>,
    <<"x","y","z">>,
    <<"l","o","n","g","e","r"," ","t","h","a","n"," ","5">>,
    <<" ","l","o","n","g","e","r"," ","t","h","a","n"," ","7">>,
    <<" ","c","h","a","r","a","c","t","e","r","s">>,
    <<" ","c","o","n","t","a","i","n","i","n","g"," ","t","h","e"," ","l","e","t","t","e","r"," ","r">>,
    <<" ","c","o","n","t","a","i","n"," ","l","o","t">>,
    <<"P","a","l","i","n","d","r","o","m","i","c">>,
    <<" ","s","i","n","g","l","e"," ","w","o","r","d">>,
    <<" ","2"," ","w","o","r","d","s">>,
    <<"f","i","r","s","t"," ","v","o","w","e","l">>,
    <<" ","l","o","n","g","e","r"," ","t","h","a","n"," ">> \o [ i \in 1..20 |-> "9" ],
    README_QUERY,
    EXAMPLE_QUERY }

RECURSIVE Flatten(_)
Flatten(ss) == IF ss = <<>> THEN <<>> ELSE Head(ss) \o Flatten(Tail(ss))

Queries ==
  { Flatten(ss) : ss \in UNION { [1..n -> Fragments] : n \in 0..MaxFragments } }

InitNL ==
  /\ Started
  /\ input \in Queries
  /\ output = NoOutput

Translate ==
  /\ ~output.done
  /\ output' = [done |-> TRUE, val |-> parseNaturalLanguage(input)]
  /\ UNCHANGED <<store, readers, writer, clock, pc, req, loc, res, input>>

NextNL == Translate

SpecNL == InitNL /\ [][NextNL]_vars

\* ------------------------------------------------------------------------
\* The two scans on their own: the map and the filter (or query) in input
\* ------------------------------------------------------------------------

\* the largest min_length and max_length of a filter
MaxFilterLen == 3

\* the largest word_count of a filter
MaxFilterWords == 2

\* the stored values: "", "A", "Aa", "a b", "banana"
FilterValues ==
  { <<>>, <<"A">>, <<"A","a">>, <<"a"," ","b">>, <<"b","a","n","a","n","a">> }

\* the map held after the values of S have been created
StoreOf(S) ==
  [ k \in { computeHash(v) : v \in S } |->
      LET v == CHOOSE x \in S : computeHash(x) = k
      IN  NewItem(k, v, analyzeString(v), 0) ]

Opt(S) == { <<>> } \cup { <<x>> : x \in S }

\* the filters getAllStringsHandler builds from valid parameters
Filters ==
  [ is_palindrome : Opt(BOOLEAN),
    min_length : Opt(0..MaxFilterLen),
    max_length : Opt(0..MaxFilterLen),
    word_count : Opt(0..MaxFilterWords),
    contains_character : Opt({"a", "A", "b", " "}) ]

\* "contain A", "contain a", "contain b", "palindromic", "longer than 1 contain a"
FilterQueries ==
  { <<"c","o","n","t","a","i","n"," ","A">>,
    <<"c","o","n","t","a","i","n"," ","a">>,
    <<"c","o","n","t","a","i","n"," ","b">>,
    PALINDROMIC_STR,
    <<"l","o","n","g","e","r"," ","t","h","a","n"," ","1"," ","c","o","n","t","a","i","n"," ","a">> }

InitFilter ==
  /\ Started
  /\ \E S \in SUBSET FilterValues :
       \/ \E f \in Filters : input = [path |-> "list", m |-> StoreOf(S), f |-> f]
       \/ \E q \in FilterQueries : input = [path |-> "nl", m |-> StoreOf(S), q |-> q]
  /\ output = NoOutput

\* the scan of getAllStringsHandler
ListEval ==
  /\ ~output.done
  /\ input.path = "list"
  /\ output' = [done |-> TRUE, val |-> ListResults(input.m, input.f)]
  /\ UNCHANGED <<store, readers, writer, clock, pc, req, loc, res, input>>

\* parseNaturalLanguage, then the scan of applyParsedFilters
NLEval ==
  /\ ~output.done
  /\ input.path = "nl"
  /\ output' = [ done |-> TRUE,
                 val |-> applyParsedFilters(input.m, parseNaturalLanguage(input.q).parsed) ]
  /\ UNCHANGED <<store, readers, writer, clock, pc, req, loc, res, input>>

NextFilter == ListEval \/ NLEval

SpecFilter == InitFilter /\ [][NextFilter]_vars

\* ------------------------------------------------------------------------
\* Properties
\* ------------------------------------------------------------------------

\* every slot has served its request
AllReturned == \A p \in Procs : pc[p] = "done"

Created(p) == pc[p] = "done" /\ res[p].status = 201

Conflict(p) == pc[p] = "done" /\ res[p].status = 409

\* C1: when concurrent creates of one value against a store without it have
\* all returned, exactly one has reported 201 Created, every other one has
\* reported 409 (AlreadyExists), and the store holds exactly one record.
C1_ExactlyOneCreated ==
  AllReturned =>
    /\ Cardinality({ p \in Procs : Created(p) }) = 1
    /\ \A p \in Procs : Created(p) \/ Conflict(p)
    /\ Cardinality(DOMAIN store) = 1

\* C2: a stored record is never mutated: as long as an id stays in the store,
\* the record under it stays the one first stored.
C2_NeverMutated ==
  [][\A k \in DOMAIN store \cap DOMAIN store' : store'[k] = store[k]]_vars

\* the map m holds a record whose value is v
Stored(m, v) == \E k \in DOMAIN m : m[k].value = v

\* C3: every entry of the store is keyed by its id, which is the hash of its
\* value, so no two stored records have the same value.
C3_ContentAddressed ==
  \A k \in DOMAIN store :
    /\ store[k].id = k
    /\ k = computeHash(store[k].value)
    /\ \A j \in DOMAIN store : store[j].value = store[k].value => j = k

\* two records are stored
C3_Witness == Cardinality(DOMAIN store) >= 2

\* this step is the one in which slot p returns from a request of route op
Returns(p, op) ==
  /\ pc'[p] = "done"
  /\ req'[p].op = op
  /\ (pc[p] # "done" \/ req[p] # req'[p] \/ res[p] # res'[p])

\* C4: a get of a value that is stored returns the stored record, whose value
\* is the requested value and whose id is its hash; a get of a value that is
\* not stored returns no record.
C4_RoundTrip ==
  [][\A p \in Procs :
       Returns(p, "get") =>
         LET v == req'[p].arg
         IN  IF Stored(store, v)
             THEN /\ res'[p].status = 200
                  /\ res'[p].body = store[computeHash(v)]
                  /\ res'[p].body.value = v
                  /\ res'[p].body.id = computeHash(v)
             ELSE res'[p].status # 200]_vars

\* C5: a delete of v that succeeds leaves no record of v; a delete of a value
\* that is not stored does not succeed; either way every record stored under
\* another value is left as it was.
C5_Deletion ==
  [][\A p \in Procs :
       Returns(p, "delete") =>
         LET v == req'[p].arg
         IN  /\ res'[p].status = 204 => ~Stored(store', v)
             /\ ~Stored(store, v) => res'[p].status # 204
             /\ \A k \in DOMAIN store :
                  store[k].value # v => k \in DOMAIN store' /\ store'[k] = store[k]]_vars

\* C6: the store changes only in the step in which a create returns 201 or a
\* delete returns 204: the steps of a create rejected with 400, 422 or 409, of
\* a list or natural-language query rejected with 400, and of every get, list
\* and natural-language query leave the store as it was.
C6_FrameEffect ==
  [][store' # store =>
       \E p \in Procs :
          \/ Returns(p, "post") /\ res'[p].status = 201
          \/ Returns(p, "delete") /\ res'[p].status = 204]_vars

\* a create has been rejected as AlreadyExists, a list as invalid and a query
\* as unparseable or answered, with a record in the store
C6_Witness ==
  /\ store # EmptyMap
  /\ \E p \in Procs : Conflict(p)
  /\ \E p \in Procs : pc[p] = "done" /\ req[p].op \in {"list", "nl", "get"}

\* the records of the map m
Records(m) == { m[k] : k \in DOMAIN m }

\* the record's frequency map has a key equal to c ignoring case
HasFolded(item, c) ==
  \E ch \in DOMAIN item.properties.character_frequency_map :
     ToLowerCh(ch) = ToLowerCh(c)

\* C7: on both query paths a filter that sets only containsCharacter = c
\* returns exactly the records whose character-frequency map has a key equal
\* to c ignoring case.
C7_CaseInsensitive ==
  output.done =>
    /\ ( /\ input.path = "list"
         /\ input.f.contains_character # <<>>
         /\ input.f = [NoFilter EXCEPT !.contains_character = input.f.contains_character] )
       => output.val =
            { r \in Records(input.m) : HasFolded(r, input.f.contains_character[1]) }
    /\ ( /\ input.path = "nl"
         /\ DOMAIN parseNaturalLanguage(input.q).parsed = {"contains_character"} )
       => output.val =
            { r \in Records(input.m) :
                HasFolded(r, parseNaturalLanguage(input.q).parsed["contains_character"][1]) }

\* the record satisfies every field the filter f sets
Satisfies(r, f) ==
  /\ f.is_palindrome = <<>> \/ r.properties.is_palindrome = f.is_palindrome[1]
  /\ f.min_length = <<>> \/ Len(r.value) >= f.min_length[1]
  /\ f.max_length = <<>> \/ Len(r.value) <= f.max_length[1]
  /\ f.word_count = <<>> \/ r.properties.word_count = f.word_count[1]
  /\ f.contains_character = <<>> \/ HasFolded(r, f.contains_character[1])

\* C8: the list scan returns exactly the stored records that satisfy every
\* field the filter sets (is_palindrome equal, length >= min_length, length <=
\* max_length, word_count equal, the character a key of the frequency map
\* ignoring case); a field that is not set constrains nothing, so the empty
\* filter returns every record.
C8_FilterComposition ==
  (output.done /\ input.path = "list") =>
    /\ output.val = { r \in Records(input.m) : Satisfies(r, input.f) }
    /\ input.f = NoFilter => output.val = Records(input.m)

AllSpace(s) == \A i \in 1..Len(s) : IsSpace(s[i])

\* one of the six rules matches the lowercased, trimmed query q
RuleMatches(q) ==
  \/ Contains(q, SINGLE_WORD) \/ Contains(q, SINGLE_DASH_WORD) \/ Contains(q, ONE_WORD)
  \/ Contains(q, PALINDROM)
  \/ \E i \in 1..Len(q) : LongerAt(q, i) # <<>>
  \/ \E i \in 1..Len(q) : ContainsAt(q, i) # <<>>
  \/ Contains(q, FIRST_VOWEL)
  \/ \E i \in 1..Len(q) : WordsAt(q, i) # <<>>

\* C9: the parser answers "empty query" for an empty or whitespace-only query
\* and "unable to parse" when no rule matches; when it succeeds the filter has
\* at least one field, and when it fails it returns no filter.
C9_FailsClosed ==
  output.done =>
    LET r == output.val
    IN  /\ AllSpace(input) => r.err = "empty query"
        /\ (~AllSpace(input) /\ ~RuleMatches(LowerTrimmed(input)))
             => r.err = "unable to parse natural language query"
        /\ r.err = "" => DOMAIN r.parsed # {}
        /\ r.err # "" => r.parsed = EmptyMap

\* a query that is not blank has been reported as unparseable
C9_Witness ==
  /\ output.done
  /\ ~AllSpace(input)
  /\ output.val.err = "unable to parse natural language query"

\* the indexes at which "longer than", whitespace and a digit occur in q
LongerOccs(q) ==
  { i \in 1..Len(q) :
      /\ MatchAt(q, i, LONGER_THAN)
      /\ \E b \in (i + Len(LONGER_THAN) + 1)..Len(q) :
            /\ \A k \in (i + Len(LONGER_THAN))..(b - 1) : IsReSpace(q[k])
            /\ IsDigit(q[b]) }

\* the first and the last index of the number of the occurrence at i
NumFirst(q, i) ==
  CHOOSE b \in (i + Len(LONGER_THAN) + 1)..Len(q) :
    /\ \A k \in (i + Len(LONGER_THAN))..(b - 1) : IsReSpace(q[k])
    /\ IsDigit(q[b])

NumLast(q, i) ==
  CHOOSE c \in NumFirst(q, i)..Len(q) :
    /\ \A k \in NumFirst(q, i)..c : IsDigit(q[k])
    /\ c = Len(q) \/ ~IsDigit(q[c + 1])

\* the numeral N of the occurrence at i
NumberAt(q, i) == SubSeq(q, NumFirst(q, i), NumLast(q, i))

RECURSIVE ToDecimal(_)
\* the numeral of n >= 0
ToDecimal(n) ==
  IF n < 10 THEN <<Digits[n + 1]>>
  ELSE ToDecimal(n \div 10) \o <<Digits[(n % 10) + 1]>>

RECURSIVE DecInc(_)
\* the numeral of N + 1 for the numeral of N
DecInc(ds) ==
  IF ds = <<>> THEN <<"1">>
  ELSE IF ds[Len(ds)] = "9" THEN DecInc(SubSeq(ds, 1, Len(ds) - 1)) \o <<"0">>
  ELSE SubSeq(ds, 1, Len(ds) - 1) \o <<Digits[DigitVal(ds[Len(ds)]) + 2]>>

\* the filter of the README's example
ExampleFilter == [min_length |-> 6, contains_character |-> <<"r">>]

\* the parse succeeded with min_length = N + 1 for the numeral ds of N, and
\* with no max_length
MinLengthIsOneAbove(r, ds) ==
  /\ r.err = ""
  /\ "min_length" \in DOMAIN r.parsed
  /\ r.parsed["min_length"] >= 0
  /\ ToDecimal(r.parsed["min_length"]) = DecInc(StripZeros(ds))
  /\ "max_length" \notin DOMAIN r.parsed

\* C10: for every "longer than N" the query contains, with or without a
\* following "characters", the filter has min_length = N + 1 and no
\* max_length; the example query translates to exactly {min_length: 6,
\* contains_character: "r"}.
C10_LongerThan ==
  output.done =>
    /\ \A i \in LongerOccs(LowerTrimmed(input)) :
          MinLengthIsOneAbove(output.val, NumberAt(LowerTrimmed(input), i))
    /\ input = EXAMPLE_QUERY =>
          output.val.err = "" /\ output.val.parsed = ExampleFilter

\* the phrases of the "contain" rule
ContainPhrases == {CONTAINING_THE_LETTER, CONTAIN_THE_LETTER, CONTAINING, CONTAIN}

\* at i one of the phrases, whitespace, and then a token that is exactly the
\* one letter c: the letter ends the query or a character that is neither a
\* letter, a digit nor "_" follows it
SingleLetterAt(q, i, c) ==
  \E lit \in ContainPhrases :
     /\ LitSpaces(q, i, lit) > 0
     /\ LitSpaces(q, i, lit) <= Len(q)
     /\ IsLetter(q[LitSpaces(q, i, lit)])
     /\ q[LitSpaces(q, i, lit)] = c
     /\ \/ LitSpaces(q, i, lit) = Len(q)
        \/ ~IsWordChar(q[LitSpaces(q, i, lit) + 1])

\* a rule other than the "contain" rule matches the lowercased, trimmed q
OtherRuleMatches(q) ==
  \/ Contains(q, SINGLE_WORD) \/ Contains(q, SINGLE_DASH_WORD) \/ Contains(q, ONE_WORD)
  \/ Contains(q, PALINDROM)
  \/ \E i \in 1..Len(q) : LongerAt(q, i) # <<>>
  \/ Contains(q, FIRST_VOWEL)
  \/ \E i \in 1..Len(q) : WordsAt(q, i) # <<>>

\* C11: the filter gets contains_character = c from the "contain" rule only
\* when a phrase of the rule is followed by a token that is exactly the letter
\* c; a query in which no phrase is followed by a one-letter token and no
\* other rule matches is reported as unparseable.
C11_SingleLetter ==
  output.done =>
    /\ ( /\ output.val.err = ""
         /\ "contains_character" \in DOMAIN output.val.parsed
         /\ ~Contains(LowerTrimmed(input), FIRST_VOWEL) )
       => \E i \in 1..Len(LowerTrimmed(input)) :
             SingleLetterAt(LowerTrimmed(input), i,
                            output.val.parsed["contains_character"][1])
    /\ ( /\ ~AllSpace(input)
         /\ ~OtherRuleMatches(LowerTrimmed(input))
         /\ \A i \in 1..Len(LowerTrimmed(input)) : \A c \in Range(Lower) :
               ~SingleLetterAt(LowerTrimmed(input), i, c) )
       => output.val.err = "unable to parse natural language query"

\* request p takes the step in which a scan evaluates the filter on the records
FilterStep(p) ==
  \/ pc[p] = "list_scan" /\ pc'[p] = "list_runlock"
  \/ pc[p] = "nl_scan" /\ pc'[p] = "nl_runlock"

\* C12: a list or natural-language query evaluates its filter on the records
\* only after it has released the read lock, so no step that evaluates a
\* filter is taken by a request that holds the lock.
C12_NoLockWhileFiltering ==
  [][\A p \in Procs : FilterStep(p) => p \notin readers]_vars

\* ------------------------------------------------------------------------
\* A finite set of concurrent requests: every slot serves at most one request,
\* against a store that holds some of the values; a request that has started
\* keeps being scheduled
\* ------------------------------------------------------------------------

InitLive ==
  /\ store \in { StoreOf(S) : S \in SUBSET {<<"A">>} }
  /\ readers = {}
  /\ writer = NoProc
  /\ clock = 0
  /\ pc = [p \in Procs |-> "idle"]
  /\ req = [p \in Procs |-> NoRequest]
  /\ loc = [p \in Procs |-> NoLocals]
  /\ res = [p \in Procs |-> NoResponse]
  /\ input = <<>>
  /\ output = NoOutput

\* a step of the one request of slot p
Once(p) ==
  /\ pc[p] # "done"
  /\ (Post(p) \/ Get(p) \/ Delete(p) \/ List(p) \/ NL(p))

\* request p has started and has not returned
InFlight(p) == pc[p] \notin {"idle", "done"}

\* a step of a request that has started
RunStep(p) == InFlight(p) /\ Once(p)

NextLive ==
  \/ \E p \in Procs : Once(p)
  \/ Tick

SpecLive ==
  /\ InitLive
  /\ [][NextLive]_vars
  /\ \A p \in Procs : WF_vars(RunStep(p))

\* C13: every request that has started eventually returns; a request that is
\* not running (it has returned on any path, or has not started) holds neither
\* the read nor the write lock; and while a request is in flight some request
\* can take a step.
C13_TerminatesLockFree ==
  /\ \A p \in Procs : InFlight(p) ~> (pc[p] = "done")
  /\ [](\A p \in Procs : ~InFlight(p) => (p \notin readers /\ writer # p))
  /\ []((\E p \in Procs : InFlight(p)) => ENABLED (\E p \in Procs : RunStep(p)))

\* a delete that removed a record and a scan have both returned
C13_Witness ==
  \E p, q \in Procs :
     /\ pc[p] = "done" /\ req[p].op = "delete" /\ res[p].status = 204
     /\ pc[q] = "done" /\ req[q].op \in {"list", "nl"} /\ res[q].status = 200
     /\ readers = {} /\ writer = NoProc

====
